---- MODULE Spec2Model ----
(***************************************************************************)
(* Verification model of lvndry/clausea (backend):                         *)
(*   routes/extension.py        extract_domain, check_url, request_support *)
(*   services/email_service.py  EmailService                               *)
(*   dashboard/db_utils.py      the isolated persistence gateway           *)
(*   dashboard/components/product_creation.py  the product creation form   *)
(*                                                                         *)
(* Python str values are modelled as sequences of one-character strings,   *)
(* so that startswith, split, join, lower, replace and strip are computed  *)
(* character by character as the interpreter computes them.                *)
(***************************************************************************)
EXTENDS Integers, Sequences, FiniteSets, TLC

VARIABLES
    ed_pc,          \* extract_domain driver: "call" | "done"
    ed_url,         \* the str handed to extract_domain
    ed_out,         \* what the call produced: [raised, value]
    products,       \* the products collection of the document store
    documents,      \* the documents collection of the document store
    loop_clients,   \* db_utils._loop_clients: event loop -> client
    loop_dbs,       \* db_utils._loop_dbs: event loop -> the client whose database it is
    clients_made,   \* how many clients _create_client has made
    database_name_valid, \* whether DATABASE_NAME is a name the driver accepts
    chk_pc,         \* check_url: "idle" | "lookup1" | "lookup2" | "overview" | "done" | "failed"
    chk_url,        \* check_url: the url query parameter
    chk_domain,     \* check_url: domain = extract_domain(url)
    chk_product,    \* check_url: product (None or Some(product))
    chk_overview,   \* check_url: overview (None or Some(overview))
    chk_calls,      \* check_url: the service calls made so far, in order
    chk_response,   \* check_url: the ExtensionCheckResponse returned (None until then)
    gw,             \* a caller of a gateway read: [pc, op, arg, failed, value]
    sup,            \* request_support: [pc, url, domain, sent, error, response]
    mail,           \* the email side: [env_key, service, outbox]
    ss,             \* st.session_state of each dashboard session
    frm             \* show_product_creation of each session: its run and what it showed

ed_vars == <<ed_pc, ed_url, ed_out>>

chk_vars == <<chk_pc, chk_url, chk_domain, chk_product, chk_overview, chk_calls, chk_response>>

conn_vars == <<loop_clients, loop_dbs, clients_made, database_name_valid>>

vars == <<ed_pc, ed_url, ed_out, products, documents, loop_clients, loop_dbs, clients_made,
          database_name_valid,
          chk_pc, chk_url, chk_domain, chk_product, chk_overview, chk_calls, chk_response,
          gw, sup, mail, ss, frm>>

\* what each part of the program leaves alone
not_ed == <<products, documents, conn_vars, chk_vars, gw, sup, mail, ss, frm>>
not_chk == <<ed_vars, documents, conn_vars, gw, sup, mail, ss, frm>>
not_gw == <<ed_vars, chk_vars, sup, mail, ss, frm>>
not_sup == <<ed_vars, chk_vars, products, documents, conn_vars, gw, ss, frm>>
not_frm == <<ed_vars, chk_vars, documents, gw, sup, mail>>

\* Python's None and a present value, as sequences of length 0 and 1
None == <<>>
Some(x) == <<x>>

----------------------------------------------------------------------------
(* Bounds of the model *)

\* most labels in a generated hostname
MaxLabels == 3

\* most entries of an overview's dangers, and of its keypoints
MaxDangers == 4
MaxKeypoints == 4

\* event loops that may exist at a time, and clients ever made
MaxLoops == 2
MaxClients == 3

\* most emails the provider is asked to deliver
MaxEmails == 2

\* most products the form may have stored or be storing
MaxProducts == 2

\* most times a session presses Create Other
MaxCounter == 1

----------------------------------------------------------------------------
(* Python str primitives on character sequences *)

Letters ==
    {"a","b","c","d","e","f","g","h","i","j","k","l","m","n","o","p","q","r",
     "s","t","u","v","w","x","y","z",
     "A","B","C","D","E","F","G","H","I","J","K","L","M","N","O","P","Q","R",
     "S","T","U","V","W","X","Y","Z"}

Digits == {"0","1","2","3","4","5","6","7","8","9"}

\* s.startswith(p)
StartsWith(s, p) ==
    /\ Len(s) >= Len(p)
    /\ \A i \in 1..Len(p) : s[i] = p[i]

\* s[k:] with k counted from 0 as Python does
Drop(s, k) == SubSeq(s, k + 1, Len(s))

\* c in s, for a single character c
HasChar(s, c) == \E i \in 1..Len(s) : s[i] = c

\* the 1-based position of the first character of s, at or after from, that is
\* in chars; 0 when there is none (str.find, shifted by one)
FindFrom(s, chars, from) ==
    LET hits == {i \in from..Len(s) : s[i] \in chars}
    IN  IF hits = {} THEN 0 ELSE CHOOSE i \in hits : \A j \in hits : i <= j

\* s.split(sep) for a single character sep
RECURSIVE Split(_, _)
Split(s, sep) ==
    LET i == FindFrom(s, {sep}, 1)
    IN  IF i = 0 THEN <<s>>
        ELSE <<SubSeq(s, 1, i - 1)>> \o Split(Drop(s, i), sep)

\* sep.join(parts)
RECURSIVE Join(_, _)
Join(parts, sep) ==
    IF Len(parts) = 0 THEN <<>>
    ELSE IF Len(parts) = 1 THEN parts[1]
    ELSE parts[1] \o <<sep>> \o Join(Tail(parts), sep)

\* parts[-k:]
LastK(parts, k) ==
    IF Len(parts) <= k THEN parts ELSE SubSeq(parts, Len(parts) - k + 1, Len(parts))

----------------------------------------------------------------------------
(* urllib.parse.urlparse, as far as extract_domain reads it (netloc, path).   *)
(* Inputs of the model are drawn from the characters letters, digits and      *)
(* . : / ? # = [ so the steps of urlsplit that act on other characters (the   *)
(* stripping of leading control characters and spaces, the ';' parameters of  *)
(* the last path segment, NFKC checks of non-ASCII netlocs, the validation of *)
(* a bracketed host that has both brackets) never apply.                      *)

scheme_chars == Letters \cup Digits \cup {"+", "-", "."}

\* the exception class urlsplit raises ("Invalid IPv6 URL")
ValueError == [raised |-> TRUE, netloc |-> <<>>, path |-> <<>>]

urlparse(url) ==
    LET colon     == FindFrom(url, {":"}, 1)
        hasScheme == /\ colon > 1
                     /\ url[1] \in Letters
                     /\ \A k \in 1..(colon - 1) : url[k] \in scheme_chars
        rest1     == IF hasScheme THEN Drop(url, colon) ELSE url
        hasNetloc == StartsWith(rest1, <<"/", "/">>)
        delimHit  == FindFrom(rest1, {"/", "?", "#"}, 3)
        delim     == IF delimHit = 0 THEN Len(rest1) + 1 ELSE delimHit
        netloc    == IF hasNetloc THEN SubSeq(rest1, 3, delim - 1) ELSE <<>>
        rest2     == IF hasNetloc THEN Drop(rest1, delim - 1) ELSE rest1
        hash      == FindFrom(rest2, {"#"}, 1)
        rest3     == IF hash = 0 THEN rest2 ELSE SubSeq(rest2, 1, hash - 1)
        qmark     == FindFrom(rest3, {"?"}, 1)
        path      == IF qmark = 0 THEN rest3 ELSE SubSeq(rest3, 1, qmark - 1)
    IN  IF hasNetloc /\ (HasChar(netloc, "[") # HasChar(netloc, "]"))
        THEN ValueError
        ELSE [raised |-> FALSE, netloc |-> netloc, path |-> path]

----------------------------------------------------------------------------
(* routes/extension.py: extract_domain *)

\* two_part_tlds with co.uk forgotten
two_part_tlds_without_co_uk ==
    { <<"c","o","m",".","a","u">>, <<"c","o",".","n","z">>,
      <<"c","o",".","j","p">>, <<"c","o","m",".","b","r">>, <<"c","o",".","i","n">> }

\* Common two-part TLDs, each as its two labels
two_part_tlds ==
    { <<"c","o",".","u","k">>, <<"c","o","m",".","a","u">>, <<"c","o",".","n","z">>,
      <<"c","o",".","j","p">>, <<"c","o","m",".","b","r">>, <<"c","o",".","i","n">> }

\* parsed.netloc or parsed.path
hostname_of(parsed) == IF parsed.netloc # <<>> THEN parsed.netloc ELSE parsed.path

\* strip_www with the prefix test dropped: nothing is stripped
strip_www_never(hostname) == hostname

\* if hostname.startswith("www."): hostname = hostname[4:]
strip_www(hostname) ==
    IF StartsWith(hostname, <<"w","w","w",".">>) THEN Drop(hostname, 4) ELSE hostname

\* the str extract_domain returns for a hostname (lines 61-78)
root_domain(hostname0) ==
    LET hostname == strip_www(hostname0)
        parts    == Split(hostname, ".")
    IN  IF Len(parts) >= 3
        THEN LET potential_tld == Join(LastK(parts, 2), ".")
             IN  IF potential_tld \in two_part_tlds
                 THEN Join(LastK(parts, 3), ".")
                 ELSE Join(LastK(parts, 2), ".")
        ELSE hostname

\* the outcome of a call: the str returned, or the exception urlparse raised
Raised == [raised |-> TRUE, value |-> <<>>]
Returned(s) == [raised |-> FALSE, value |-> s]

extract_domain(url) ==
    LET parsed == urlparse(url)
    IN  IF parsed.raised THEN Raised ELSE Returned(root_domain(hostname_of(parsed)))

----------------------------------------------------------------------------
(* Inputs of extract_domain *)

Labels ==
    { <<"w","w","w">>, <<"a","p","p">>, <<"c","o">>, <<"u","k">>, <<"c","o","m">>, <<"[">> }

RECURSIVE HostsOfLen(_)
HostsOfLen(n) ==
    IF n = 1 THEN Labels
    ELSE { h \o <<".">> \o l : h \in HostsOfLen(n - 1), l \in Labels }

Hosts == UNION { HostsOfLen(n) : n \in 1..MaxLabels }

Prefixes == { <<>>, <<"h","t","t","p","s",":","/","/">>, <<"/","/">> }

Tails == { <<>>, <<"/","j","o","i","n">>, <<":","8","0","8","0">>, <<"?","q","=","a",".","b">> }

SlackUrl ==
    <<"h","t","t","p","s",":","/","/","a","p","p",".","s","l","a","c","k",".",
      "c","o","m","/","c","l","i","e","n","t">>
FooBarUrl ==
    <<"h","t","t","p","s",":","/","/","f","o","o",".","b","a","r",".","c","o",".","u","k">>
ZoomUrl ==
    <<"h","t","t","p","s",":","/","/","z","o","o","m",".","u","s","/","j","o","i","n">>

ExampleUrls == { SlackUrl, FooBarUrl, ZoomUrl }

Urls == { p \o h \o t : p \in Prefixes, h \in Hosts, t \in Tails } \cup ExampleUrls

----------------------------------------------------------------------------
(* More str primitives *)

UpperCase ==
    <<"A","B","C","D","E","F","G","H","I","J","K","L","M","N","O","P","Q","R",
      "S","T","U","V","W","X","Y","Z">>
LowerCase ==
    <<"a","b","c","d","e","f","g","h","i","j","k","l","m","n","o","p","q","r",
      "s","t","u","v","w","x","y","z">>

LowerChar(c) ==
    IF \E i \in 1..Len(UpperCase) : UpperCase[i] = c
    THEN LowerCase[CHOOSE i \in 1..Len(UpperCase) : UpperCase[i] = c]
    ELSE c

\* s.lower()
Lower(s) == [i \in 1..Len(s) |-> LowerChar(s[i])]

\* sub in s
Contains(s, sub) ==
    \E i \in 0..(Len(s) - Len(sub)) : \A j \in 1..Len(sub) : s[i + j] = sub[j]

\* xs[:k]
FirstK(xs, k) == IF Len(xs) <= k THEN xs ELSE SubSeq(xs, 1, k)

----------------------------------------------------------------------------
(* routes/extension.py: check_url *)

\* ExtensionCheckResponse(found=False): every other field keeps its default None
NotFoundResponse ==
    [found |-> FALSE, slug |-> None, product_name |-> None, verdict |-> None,
     risk_score |-> None, one_line_summary |-> None, top_concerns |-> None,
     analysis_url |-> None]

\* analysis_url_of with the link made to the www host
analysis_url_of_www_host(slug) ==
    <<"h","t","t","p","s",":","/","/","w","w","w",".","c","l","a","u","s","e","a",".","c","o","/",
      "p","r","o","d","u","c","t","s","/">> \o slug

\* f"https://clausea.co/products/{product.slug}"
analysis_url_of(slug) ==
    <<"h","t","t","p","s",":","/","/","c","l","a","u","s","e","a",".","c","o","/",
      "p","r","o","d","u","c","t","s","/">> \o slug

\* found=True with slug, product_name and analysis_url only (no analysis yet)
NoOverviewResponse(product) ==
    [found |-> TRUE, slug |-> Some(product.slug), product_name |-> Some(product.name),
     verdict |-> None, risk_score |-> None, one_line_summary |-> None,
     top_concerns |-> None, analysis_url |-> Some(analysis_url_of(product.slug))]

risk_keywords ==
    << <<"s","h","a","r","e">>, <<"s","e","l","l">>, <<"t","r","a","c","k">>,
       <<"c","o","l","l","e","c","t">>, <<"t","h","i","r","d">>,
       <<"a","d","v","e","r","t","i","s">>, <<"r","e","t","a","i","n">> >>

\* is_concerning with kp.lower() forgotten: the match is case-sensitive
is_concerning_case_sensitive(kp) ==
    \E w \in 1..Len(risk_keywords) : Contains(kp, risk_keywords[w])

\* any(word in kp.lower() for word in risk_keywords)
is_concerning(kp) ==
    \E w \in 1..Len(risk_keywords) : Contains(Lower(kp), risk_keywords[w])

\* lines 129-139: top_concerns, None unless dangers or keypoints is non-empty
top_concerns_of(overview) ==
    IF overview.dangers # <<>>
    THEN Some(FirstK(overview.dangers, 3))
    ELSE IF overview.keypoints # <<>>
    THEN LET concerning == SelectSeq(overview.keypoints, is_concerning)
         IN  Some(IF concerning # <<>> THEN FirstK(concerning, 3)
                  ELSE FirstK(overview.keypoints, 3))
    ELSE None

\* lines 141-150: the response for a product with an overview
OverviewResponse(product, overview) ==
    [found |-> TRUE, slug |-> Some(product.slug),
     product_name |-> Some(overview.product_name),
     verdict |-> Some(overview.verdict), risk_score |-> Some(overview.risk_score),
     one_line_summary |-> Some(overview.one_line_summary),
     top_concerns |-> top_concerns_of(overview),
     analysis_url |-> Some(analysis_url_of(product.slug))]

\* service.get_product_by_domain(db, domain): the products whose domains hold domain
ProductsByDomain(domain) ==
    {p \in products : \E i \in 1..Len(p.domains) : p.domains[i] = domain}

\* the retry of line 110 with its test of the number of labels dropped
needs_base_domain_retry_always(product, domain) == product = None

\* lines 106-110: if not product ... if len(parts) > 2
needs_base_domain_retry(product, domain) ==
    product = None /\ Len(Split(domain, ".")) > 2

\* base_domain_of that keeps the last three labels
base_domain_of_last_three(domain) == Join(LastK(Split(domain, "."), 3), ".")

\* line 111: base_domain = ".".join(parts[-2:])
base_domain_of(domain) == Join(LastK(Split(domain, "."), 2), ".")

DomainCall(domain, found) == [op |-> "get_product_by_domain", arg |-> domain, found |-> found]
OverviewCall(slug, found) == [op |-> "get_product_overview", arg |-> slug, found |-> found]

(* The overviews the analysis service may hold for a product *)

DangerPool == { <<"s","e","l","l","s"," ","d","a","t","a">>,
                <<"t","r","a","c","k","s"," ","l","o","c","a","t","i","o","n">> }

KeypointPool == { <<"W","e"," ","S","H","A","R","E"," ","d","a","t","a">>,
                  <<"t","r","a","c","k","i","n","g">>,
                  <<"E","n","c","r","y","p","t","e","d">> }

SeqsUpTo(S, n) == UNION { [1..k -> S] : k \in 0..n }

ExampleDangers ==
    << <<"s","h","a","r","e","s"," ","d","a","t","a">>, <<"s","e","l","l","s"," ","d","a","t","a">>,
       <<"t","r","a","c","k","s"," ","l","o","c","a","t","i","o","n">>,
       <<"r","e","t","a","i","n","s"," ","l","o","g","s">> >>

ExampleKeypoints ==
    << <<"E","n","c","r","y","p","t","e","d">>,
       <<"W","e"," ","m","a","y"," ","s","h","a","r","e"," ","y","o","u","r"," ","d","a","t","a",
         " ","w","i","t","h"," ","p","a","r","t","n","e","r","s">> >>

OverviewLists ==
    (SeqsUpTo(DangerPool, MaxDangers) \X SeqsUpTo(KeypointPool, MaxKeypoints))
    \cup { <<ExampleDangers, <<>> >>, << <<>>, ExampleKeypoints>> }

Overviews(product) ==
    { [product_name |-> product.name, verdict |-> "moderate", risk_score |-> 5,
       one_line_summary |-> <<"C","o","l","l","e","c","t","s"," ","d","a","t","a">>,
       dangers |-> l[1], keypoints |-> l[2]] : l \in OverviewLists }

(* The products the store may hold when the extension asks *)

AppProduct ==
    [id |-> 1, name |-> <<"A","p","p">>, company_name |-> None, slug |-> <<"a","p","p">>,
     domains |-> << <<"a","p","p",".","c","o","m">> >>,
     categories |-> <<>>, crawl_base_urls |-> <<>>]
UkProduct ==
    [id |-> 2, name |-> <<"U","K"," ","S","h","o","p">>, company_name |-> None,
     slug |-> <<"u","k","-","s","h","o","p">>,
     domains |-> << <<"c","o",".","u","k">>, <<"a","p","p",".","c","o",".","u","k">> >>,
     categories |-> <<>>, crawl_base_urls |-> <<>>]
WwwProduct ==
    [id |-> 3, name |-> <<"W","w","w">>, company_name |-> None, slug |-> <<"w","w","w">>,
     domains |-> << <<"w","w","w",".","a","p","p",".","c","o","m">> >>,
     categories |-> <<>>, crawl_base_urls |-> <<>>]

Catalogs == SUBSET {AppProduct, UkProduct, WwwProduct}

CheckUrls ==
    { <<"h","t","t","p","s",":","/","/","w","w","w",".","a","p","p",".","c","o","m","/","j","o","i","n">>,
      <<"h","t","t","p","s",":","/","/","a","p","p",".","c","o",".","u","k">>,
      <<"h","t","t","p","s",":","/","/","u","k",".","c","o",".","u","k">>,
      <<"h","t","t","p","s",":","/","/","c","o","m">>,
      <<"h","t","t","p","s",":","/","/","[">>,
      <<"h","t","t","p","s",":","/","/","u","k",".","a","p","p",".","c","o","m">>,
      <<"h","t","t","p","s",":","/","/","c","o",".","u","k">>,
      <<"h","t","t","p","s",":","/","/","w","w","w",".","u","k",".","a","p","p",".","c","o",".","u","k">> }

ChkIdle ==
    /\ chk_pc = "idle"
    /\ chk_url = <<>>
    /\ chk_domain = <<>>
    /\ chk_product = None
    /\ chk_overview = None
    /\ chk_calls = <<>>
    /\ chk_response = None

\* line 97: domain = extract_domain(url); an exception ends the request
CheckStart ==
    /\ chk_pc = "idle"
    /\ \E url \in CheckUrls :
        LET out == extract_domain(url)
        IN  /\ chk_url' = url
            /\ chk_domain' = out.value
            /\ chk_pc' = IF out.raised THEN "failed" ELSE "lookup1"
    /\ UNCHANGED <<chk_product, chk_overview, chk_calls, chk_response, products>>
    /\ UNCHANGED not_chk

\* lines 104-115: the lookup by domain, and what follows from its result
CheckLookup1 ==
    /\ chk_pc = "lookup1"
    /\ \E product \in (IF ProductsByDomain(chk_domain) = {} THEN {None}
                       ELSE {Some(p) : p \in ProductsByDomain(chk_domain)}) :
        /\ chk_product' = product
        /\ chk_calls' = Append(chk_calls, DomainCall(chk_domain, product # None))
        /\ IF needs_base_domain_retry(product, chk_domain)
           THEN chk_pc' = "lookup2" /\ UNCHANGED chk_response
           ELSE IF product = None
           THEN chk_pc' = "done" /\ chk_response' = Some(NotFoundResponse)
           ELSE chk_pc' = "overview" /\ UNCHANGED chk_response
    /\ UNCHANGED <<chk_url, chk_domain, chk_overview, products>>
    /\ UNCHANGED not_chk

\* lines 111-115: the lookup by base domain
CheckLookup2 ==
    /\ chk_pc = "lookup2"
    /\ LET base_domain == base_domain_of(chk_domain)
       IN  \E product \in (IF ProductsByDomain(base_domain) = {} THEN {None}
                           ELSE {Some(p) : p \in ProductsByDomain(base_domain)}) :
            /\ chk_product' = product
            /\ chk_calls' = Append(chk_calls, DomainCall(base_domain, product # None))
            /\ IF product = None
               THEN chk_pc' = "done" /\ chk_response' = Some(NotFoundResponse)
               ELSE chk_pc' = "overview" /\ UNCHANGED chk_response
    /\ UNCHANGED <<chk_url, chk_domain, chk_overview, products>>
    /\ UNCHANGED not_chk

\* lines 118-150: the overview lookup and the response built from it
CheckOverview ==
    /\ chk_pc = "overview"
    /\ LET product == chk_product[1]
       IN  \E overview \in {None} \cup {Some(o) : o \in Overviews(product)} :
            /\ chk_overview' = overview
            /\ chk_calls' = Append(chk_calls, OverviewCall(product.slug, overview # None))
            /\ chk_response' = IF overview = None
                               THEN Some(NoOverviewResponse(product))
                               ELSE Some(OverviewResponse(product, overview[1]))
            /\ chk_pc' = "done"
    /\ UNCHANGED <<chk_url, chk_domain, chk_product, products>>
    /\ UNCHANGED not_chk

\* the request is over; the next one starts from nothing
CheckReturn ==
    /\ chk_pc \in {"done", "failed"}
    /\ chk_pc' = "idle"
    /\ chk_url' = <<>>
    /\ chk_domain' = <<>>
    /\ chk_product' = None
    /\ chk_overview' = None
    /\ chk_calls' = <<>>
    /\ chk_response' = None
    /\ UNCHANGED products
    /\ UNCHANGED not_chk

----------------------------------------------------------------------------
(* dashboard/db_utils.py: the connection cache *)

\* The event loops a coroutine of the gateway may run under. _get_current_loop
\* is only called from coroutines, which run under a loop, so its None branch
\* (lines 70-74 and 95-98) is never taken.
Loops == 1..MaxLoops

\* the caches as the import leaves them, DATABASE_NAME (line 36) being a name
\* the driver accepts, such as the default "clausea"
ConnIdle ==
    /\ loop_clients = <<>>
    /\ loop_dbs = <<>>
    /\ clients_made = 0
    /\ database_name_valid = TRUE

\* the caches as the import leaves them. get_database_name (lines 19-33) takes
\* the name from the configuration or from what follows the last "/" of
\* MONGO_URI, which for a URI without a database path is the host part
\* ("cluster0.abc.mongodb.net"): a name with a "." in it, which the driver
\* rejects with InvalidName when a database handle is asked for.
ConnInit ==
    /\ loop_clients = <<>>
    /\ loop_dbs = <<>>
    /\ clients_made = 0
    /\ database_name_valid \in BOOLEAN

\* get_dashboard_db() (lines 141-153) under loop: DashboardDB.connect calls
\* _get_dashboard_client and then _get_dashboard_database. ok says whether it
\* returned; otherwise the exception of _create_client (or the assertion of line
\* 105) leaves the coroutine. A cached client is returned as it is; a new one is
\* made, and cached with its database handle, only for a loop that has none.
\* Line 82 caches the client before line 83 asks it for client[DATABASE_NAME]:
\* when that raises, the client stays cached without a database handle.
get_dashboard_db(loop, ok) ==
    IF loop \in DOMAIN loop_clients
    THEN /\ ok = (loop \in DOMAIN loop_dbs)
         /\ UNCHANGED conn_vars
    ELSE IF ok
    THEN /\ database_name_valid
         /\ clients_made < MaxClients
         /\ clients_made' = clients_made + 1
         /\ loop_clients' = (loop :> (clients_made + 1)) @@ loop_clients
         /\ loop_dbs' = (loop :> (clients_made + 1)) @@ loop_dbs
         /\ UNCHANGED database_name_valid
    ELSE \/ UNCHANGED conn_vars
         \/ /\ ~database_name_valid
            /\ clients_made < MaxClients
            /\ clients_made' = clients_made + 1
            /\ loop_clients' = (loop :> (clients_made + 1)) @@ loop_clients
            /\ UNCHANGED <<loop_dbs, database_name_valid>>

\* the event loop ended and was collected: the WeakKeyDictionary entries go
LoopClosed ==
    /\ gw.pc = "idle"
    /\ \E loop \in DOMAIN loop_clients :
        /\ loop_clients' = [l \in DOMAIN loop_clients \ {loop} |-> loop_clients[l]]
        /\ loop_dbs' = [l \in DOMAIN loop_dbs \ {loop} |-> loop_dbs[l]]
    /\ UNCHANGED <<clients_made, database_name_valid, products, documents, gw>>
    /\ UNCHANGED not_gw

----------------------------------------------------------------------------
(* dashboard/db_utils.py: the read operations *)
(* The store is taken to hold well-formed documents (those that model_dump    *)
(* wrote), so the per-document conversions succeed; what may fail inside the   *)
(* try block is the driver call. List results are given as sets: the order of  *)
(* a result (sort("name", 1), natural order) is not represented.              *)

GwIdle == gw = [pc |-> "idle", op |-> "", arg |-> None, failed |-> FALSE, value |-> None]

\* db.products.find_one({"slug": slug}): a product of that slug, or None
find_one_by_slug(slug) ==
    IF {p \in products : p.slug = slug} = {} THEN {None}
    ELSE {Some(p) : p \in {q \in products : q.slug = slug}}

\* db.documents.find({"product_id": product_id})
documents_of(product_id) == {d \in documents : d.product_id = product_id}

\* lines 336-339: the counts by product_id, groups with a falsy _id skipped
document_counts ==
    [pid \in {d.product_id : d \in documents} \ {0} |-> Cardinality(documents_of(pid))]

\* The shape every read function has: `db = await get_dashboard_db()` before
\* the try, the driver call inside it, `except Exception` returning the empty
\* result.
isolated_read(op, arg, value, empty) ==
    /\ gw.pc = "idle"
    /\ \E loop \in Loops, conn_ok \in BOOLEAN, query_ok \in BOOLEAN :
        /\ get_dashboard_db(loop, conn_ok)
        /\ gw' = IF ~conn_ok
                 THEN [pc |-> "raised", op |-> op, arg |-> arg, failed |-> TRUE, value |-> empty]
                 ELSE IF ~query_ok
                 THEN [pc |-> "returned", op |-> op, arg |-> arg, failed |-> TRUE, value |-> empty]
                 ELSE [pc |-> "returned", op |-> op, arg |-> arg, failed |-> FALSE, value |-> value]
    /\ UNCHANGED <<products, documents>>
    /\ UNCHANGED not_gw

SlugArgs == { <<"a","p","p">>, <<"u","k","-","s","h","o","p">>, <<"c">> }

get_all_products_isolated ==
    isolated_read("get_all_products_isolated", None, products, {})

get_product_by_slug_isolated ==
    \E slug \in SlugArgs : \E found \in find_one_by_slug(slug) :
        isolated_read("get_product_by_slug_isolated", slug, found, None)

\* lines 261-287: the product by slug, then its documents
get_product_documents_isolated ==
    \E slug \in SlugArgs : \E found \in find_one_by_slug(slug) :
        isolated_read("get_product_documents_isolated", slug,
                      IF found = None THEN {} ELSE documents_of(found[1].id), {})

get_product_documents_by_id_isolated ==
    \E product_id \in 1..3 :
        isolated_read("get_product_documents_by_id_isolated", <<product_id>>,
                      documents_of(product_id), {})

get_all_documents_isolated ==
    isolated_read("get_all_documents_isolated", None, documents, {})

get_document_counts_by_product ==
    isolated_read("get_document_counts_by_product", None, document_counts, <<>>)

\* the caller has the result (or the exception) and may call again
GatewayReturn ==
    /\ gw.pc \in {"returned", "raised"}
    /\ gw' = [pc |-> "idle", op |-> "", arg |-> None, failed |-> FALSE, value |-> None]
    /\ UNCHANGED <<products, documents, conn_vars>>
    /\ UNCHANGED not_gw

\* the documents the analysis pipeline may have stored (product_id 0: none)
DocPool == { [id |-> 1, product_id |-> 1], [id |-> 2, product_id |-> 1],
             [id |-> 3, product_id |-> 2], [id |-> 4, product_id |-> 0] }

----------------------------------------------------------------------------
(* services/email_service.py and routes/extension.py: request_support *)

\* RESEND_API_KEY is set in the environment, or it is not
MailInit == mail \in {[env_key |-> k, service |-> None, outbox |-> <<>>] : k \in BOOLEAN}

MailParked == mail = [env_key |-> FALSE, service |-> None, outbox |-> <<>>]

SupIdle ==
    sup = [pc |-> "idle", url |-> <<>>, domain |-> <<>>, sent |-> FALSE,
           error |-> "", response |-> None]

\* payload.url is an AnyHttpUrl: only well-formed http(s) URLs reach the handler
SupportUrls ==
    { <<"h","t","t","p","s",":","/","/","w","w","w",".","a","p","p",".","c","o","m","/","j","o","i","n">>,
      <<"h","t","t","p","s",":","/","/","a","p","p",".","c","o",".","u","k">>,
      <<"h","t","t","p","s",":","/","/","c","o","m">>,
      SlackUrl, FooBarUrl, ZoomUrl }

\* get_email_service(): the module's singleton, made on first use (lines 92-96);
\* __init__ reads RESEND_API_KEY once (line 25)
get_email_service == IF mail.service = None THEN Some([api_key |-> mail.env_key]) ELSE mail.service

\* _send_email with the test of the api key forgotten
api_key_missing_never(service) == FALSE

\* lines 67-69: if not api_key: raise EmailServiceError
api_key_missing(service) == ~service.api_key

\* lines 180-193: the domain, the log line, the email service
SupportStart ==
    /\ sup.pc = "idle"
    /\ Len(mail.outbox) < MaxEmails
    /\ \E url \in SupportUrls :
        LET out == extract_domain(url)
        IN  sup' = [pc |-> IF out.raised THEN "failed" ELSE "send", url |-> url,
                    domain |-> out.value, sent |-> FALSE,
                    error |-> IF out.raised THEN "ValueError" ELSE "", response |-> None]
    /\ mail' = [mail EXCEPT !.service = get_email_service]
    /\ UNCHANGED not_sup

\* lines 195-206 with send_support_request and _send_email (lines 36-86): the
\* provider call either delivers or raises; every failure is an
\* EmailServiceError, which request_support turns into HTTPException(500)
SupportSend ==
    /\ sup.pc = "send"
    /\ IF api_key_missing(mail.service[1])
       THEN /\ sup' = [sup EXCEPT !.pc = "done", !.error = "EmailServiceError",
                                  !.response = Some([status |-> 500, success |-> FALSE])]
            /\ UNCHANGED mail
       ELSE \E delivered \in BOOLEAN :
            IF delivered
            THEN /\ mail' = [mail EXCEPT !.outbox = Append(@, [domain |-> sup.domain, url |-> sup.url])]
                 /\ sup' = [sup EXCEPT !.pc = "done", !.sent = TRUE,
                                       !.response = Some([status |-> 200, success |-> TRUE])]
            ELSE /\ sup' = [sup EXCEPT !.pc = "done", !.error = "EmailServiceError",
                                       !.response = Some([status |-> 500, success |-> FALSE])]
                 /\ UNCHANGED mail
    /\ UNCHANGED not_sup

SupportReturn ==
    /\ sup.pc \in {"done", "failed"}
    /\ sup' = [pc |-> "idle", url |-> <<>>, domain |-> <<>>, sent |-> FALSE,
               error |-> "", response |-> None]
    /\ UNCHANGED mail
    /\ UNCHANGED not_sup

----------------------------------------------------------------------------
(* dashboard/components/product_creation.py: the creation form *)

\* str.strip(), of the blank the inputs are written with
RECURSIVE LStrip(_)
LStrip(s) == IF s # <<>> /\ s[1] = " " THEN LStrip(Tail(s)) ELSE s

RECURSIVE RStrip(_)
RStrip(s) == IF s # <<>> /\ s[Len(s)] = " " THEN RStrip(SubSeq(s, 1, Len(s) - 1)) ELSE s

Strip(s) == RStrip(LStrip(s))

\* s.replace(c, rep) for a single character c
RECURSIVE Replace(_, _, _)
Replace(s, c, rep) ==
    IF s = <<>> THEN <<>>
    ELSE (IF s[1] = c THEN rep ELSE <<s[1]>>) \o Replace(Tail(s), c, rep)

\* [x.strip() for x in xs if x.strip()]
StripAll(xs) ==
    LET stripped == [i \in 1..Len(xs) |-> Strip(xs[i])]
        NonEmpty(x) == x # <<>>
    IN  SelectSeq(stripped, NonEmpty)

\* the dashboard sessions (browser tabs), each with its own st.session_state
Sessions == {"s1", "s2"}

\* the six widgets of FORM_FIELD_KEYS at their defaults
EmptyFill ==
    [product_name_input |-> <<>>, company_name_input |-> <<>>, product_slug_input |-> <<>>,
     domains_input |-> <<>>, categories_input |-> <<>>, crawl_urls_input |-> <<>>]

AB == <<"A"," ","B">>
ACom == <<"a",".","c","o","m">>
PrivacyUrl == <<"h","t","t","p","s",":","/","/","a",".","c","o","m","/","p","r","i","v","a","c","y">>

\* what a user may have typed into the form
Fills ==
    { [EmptyFill EXCEPT !.domains_input = <<ACom>>],
      [EmptyFill EXCEPT !.product_name_input = <<" ">>],
      [EmptyFill EXCEPT !.product_name_input = AB, !.domains_input = << <<" ">> >>],
      [EmptyFill EXCEPT !.product_name_input = AB, !.domains_input = <<ACom>>,
                        !.company_name_input = <<"A","c","m","e">>,
                        !.categories_input = << <<"S","a","a","S">> >>],
      [EmptyFill EXCEPT !.product_name_input = <<"a"," ","b">>, !.crawl_urls_input = <<PrivacyUrl>>],
      [EmptyFill EXCEPT !.product_name_input = <<"A","&","B">>,
                        !.product_slug_input = <<" ","a","-","b"," ">>,
                        !.domains_input = <<ACom>>],
      [EmptyFill EXCEPT !.product_name_input = <<" ","A"," ","B">>, !.domains_input = <<ACom>>],
      [EmptyFill EXCEPT !.product_name_input = <<"A","&","B">>, !.domains_input = <<ACom>>] }

NameRequired == "Product name is required!"
DomainOrUrlRequired == "At least one domain or crawl base URL is required!"
DuplicateSlug == "Product with slug already exists. Please choose a different slug."
CreateFailed == "Failed to create product. Please try again."
ErrorCreating == "Error creating product"
CreatedOk == "Product created successfully!"

\* required_field_errors with the test of the name forgotten
required_field_errors_without_name(fill) ==
    IF StripAll(fill.domains_input) = <<>> /\ StripAll(fill.crawl_urls_input) = <<>>
    THEN {DomainOrUrlRequired} ELSE {}

\* lines 146-167: the messages of the required-field validation
required_field_errors(fill) ==
    (IF Strip(fill.product_name_input) = <<>> THEN {NameRequired} ELSE {})
    \cup (IF StripAll(fill.domains_input) = <<>> /\ StripAll(fill.crawl_urls_input) = <<>>
          THEN {DomainOrUrlRequired} ELSE {})

\* lines 171-175: the slug given, trimmed, or else one made from the name
final_slug_of(fill) ==
    IF Strip(fill.product_slug_input) # <<>>
    THEN Strip(fill.product_slug_input)
    ELSE Replace(Replace(Lower(fill.product_name_input), " ", <<"-">>), "&", <<"a","n","d">>)

\* lines 189-197: Product(id=shortuuid.uuid(), name=name.strip(), ...)
new_product(fill, id) ==
    [id |-> id,
     name |-> Strip(fill.product_name_input),
     company_name |-> IF Strip(fill.company_name_input) # <<>>
                      THEN Some(Strip(fill.company_name_input)) ELSE None,
     slug |-> final_slug_of(fill),
     domains |-> StripAll(fill.domains_input),
     categories |-> StripAll(fill.categories_input),
     crawl_base_urls |-> StripAll(fill.crawl_urls_input)]

\* lines 205-210: the success data kept for the next run
success_data(product) ==
    [product_created_name |-> product.name, product_created_id |-> product.id,
     product_created_slug |-> product.slug]

\* shortuuid.uuid(): an id no product has, stored or being stored
UsedIds ==
    {p.id : p \in products} \cup
    {frm[t].product[1].id : t \in {u \in Sessions : frm[u].product # None}}

FreshId ==
    CHOOSE i \in 1..(MaxProducts + Cardinality(Sessions) + 1) :
        i \notin UsedIds /\ \A j \in 1..(i - 1) : j \in UsedIds

\* a session that has not been used: no key of session_state is set
\* (clear_form_requested and form_counter are read with defaults False and 0)
FreshSession ==
    [pending |-> None, created |-> None, clear |-> FALSE, counter |-> 0,
     widgets |-> [c \in 0..MaxCounter |-> None]]

\* no run of the page has shown anything yet
FormAtRest ==
    [run |-> "none", pc |-> "idle", fill |-> EmptyFill, slug |-> <<>>, product |-> None,
     shown |-> {}, calls |-> <<>>, existed |-> FALSE, inserted |-> FALSE,
     before |-> FreshSession]

FormInit ==
    /\ ss = [s \in Sessions |-> FreshSession]
    /\ frm = [s \in Sessions |-> FormAtRest]

\* clear_form_fields that deletes the keys of the previous counter only
clear_form_fields_previous_only(st) ==
    [st EXCEPT !.widgets = [c \in DOMAIN st.widgets |->
                              IF c = st.counter - 1 THEN None ELSE st.widgets[c]]]

\* lines 28-45: the widget keys of the current and of the previous counter go
clear_form_fields(st) ==
    [st EXCEPT !.widgets = [c \in DOMAIN st.widgets |->
                              IF c \in {st.counter, st.counter - 1} THEN None
                              ELSE st.widgets[c]]]

\* lines 48-52
clear_success_state(st) == [st EXCEPT !.created = None]

\* lines 70-77: the pending success becomes the success state
surface_pending(st) ==
    IF st.pending # None THEN [st EXCEPT !.created = st.pending, !.pending = None] ELSE st

\* lines 91-97: a requested clearing is carried out before the form is drawn
handle_clear_request(st) ==
    IF st.clear
    THEN [clear_success_state(clear_form_fields(st)) EXCEPT !.clear = FALSE, !.counter = @ + 1]
    ELSE st

\* lines 70-104 of a run in which Create Other is not pressed
run_top(st) == handle_clear_request(surface_pending(st))

\* line 80: the success message is shown by a run that finds product_created
success_shown(st) == IF surface_pending(st).created # None THEN {CreatedOk} ELSE {}

\* the values the widgets of the current form instance hold
current_fill(st) ==
    IF st.widgets[st.counter] = None THEN EmptyFill ELSE st.widgets[st.counter][1]

\* submissions that may still add a product
InFlight == {t \in Sessions : frm[t].pc \in {"slug_check", "create"}}

\* the user edits the widgets; the values are in session_state under the
\* keys of the current form counter
FillForm(s) ==
    /\ frm[s].pc = "idle"
    /\ \E fill \in Fills :
        ss' = [ss EXCEPT ![s].widgets[ss[s].counter] = Some(fill)]
    /\ frm' = [frm EXCEPT ![s] = [FormAtRest EXCEPT !.run = "fill", !.before = ss[s]]]
    /\ UNCHANGED <<products, conn_vars>>
    /\ UNCHANGED not_frm

\* what two users who mean the same product may type: both give the slug a-b
SameSlugFills == {fill \in Fills : required_field_errors(fill) = {}
                                   /\ final_slug_of(fill) = <<"a","-","b">>}

\* FillForm by a user who types one of SameSlugFills
FillSameSlug(s) ==
    /\ frm[s].pc = "idle"
    /\ \E fill \in SameSlugFills :
        ss' = [ss EXCEPT ![s].widgets[ss[s].counter] = Some(fill)]
    /\ frm' = [frm EXCEPT ![s] = [FormAtRest EXCEPT !.run = "fill", !.before = ss[s]]]
    /\ UNCHANGED <<products, conn_vars>>
    /\ UNCHANGED not_frm

\* a run of the page with nothing pressed: the rerun after a success or after
\* Create Other, or a refresh
Render(s) ==
    /\ frm[s].pc \in {"idle", "rerun"}
    /\ ss' = [ss EXCEPT ![s] = run_top(ss[s])]
    /\ frm' = [frm EXCEPT ![s] = [FormAtRest EXCEPT !.run = "render", !.before = ss[s],
                                                    !.shown = success_shown(ss[s])]]
    /\ UNCHANGED <<products, conn_vars>>
    /\ UNCHANGED not_frm

\* lines 80-89: the run in which Create Other is pressed; it ends in st.rerun()
CreateOther(s) ==
    /\ frm[s].pc = "idle"
    /\ ss[s].created # None
    /\ ss[s].counter < MaxCounter
    /\ ss' = [ss EXCEPT ![s] = [clear_success_state(surface_pending(ss[s])) EXCEPT !.clear = TRUE]]
    /\ frm' = [frm EXCEPT ![s] = [FormAtRest EXCEPT !.run = "create_other", !.pc = "rerun",
                                                    !.before = ss[s], !.shown = {CreatedOk}]]
    /\ UNCHANGED <<products, conn_vars>>
    /\ UNCHANGED not_frm

\* lines 70-175: the run in which Create Product is pressed, up to the slug check
Submit(s) ==
    /\ frm[s].pc = "idle"
    /\ Cardinality(products) + Cardinality(InFlight) < MaxProducts
    /\ LET st     == run_top(ss[s])
           fill   == current_fill(st)
           errors == required_field_errors(fill)
       IN  /\ ss' = [ss EXCEPT ![s] = st]
           /\ frm' = [frm EXCEPT ![s] =
                [FormAtRest EXCEPT !.run = "submit", !.before = ss[s], !.fill = fill,
                    !.pc = IF errors # {} THEN "idle" ELSE "slug_check",
                    !.slug = IF errors # {} THEN <<>> ELSE final_slug_of(fill),
                    !.shown = success_shown(ss[s]) \cup errors]]
    /\ UNCHANGED <<products, conn_vars>>
    /\ UNCHANGED not_frm

\* lines 177-197: run_async_with_retry(get_product_by_slug_isolated(final_slug)).
\* The gateway call raises if the connection cannot be had, and returns None
\* both when no product has the slug and when the driver call failed
\* (db_utils.py lines 206-217).
SlugCheck(s) ==
    /\ frm[s].pc = "slug_check"
    /\ \E loop \in Loops, conn_ok \in BOOLEAN, query_ok \in BOOLEAN,
          found \in find_one_by_slug(frm[s].slug) :
        /\ get_dashboard_db(loop, conn_ok)
        /\ LET existing_product == IF query_ok THEN found ELSE None
               calls == Append(frm[s].calls, "get_product_by_slug_isolated")
               existed == found # None
           IN  frm' = [frm EXCEPT ![s] =
                 IF ~conn_ok
                 THEN [@ EXCEPT !.pc = "idle", !.calls = calls, !.existed = existed,
                                !.shown = @ \cup {ErrorCreating}]
                 ELSE IF existing_product # None
                 THEN [@ EXCEPT !.pc = "idle", !.calls = calls, !.existed = existed,
                                !.shown = @ \cup {DuplicateSlug}]
                 ELSE [@ EXCEPT !.pc = "create", !.calls = calls, !.existed = existed,
                                !.product = Some(new_product(frm[s].fill, FreshId))]]
    /\ UNCHANGED <<products, ss>>
    /\ UNCHANGED not_frm

\* insert_one with a test that no stored product has the slug
insert_one_if_slug_free(product) ==
    IF \E p \in products : p.slug = product.slug THEN products
    ELSE products \cup {product}

\* db_utils.py line 224: db.db.products.insert_one(product.model_dump());
\* the store after it
insert_one(product) == products \cup {product}

\* lines 199-215: run_async_with_retry(create_product_isolated(product))
\* (db_utils.py lines 220-229: True after insert_one, False if it raised)
Create(s) ==
    /\ frm[s].pc = "create"
    /\ \E loop \in Loops, conn_ok \in BOOLEAN, insert_ok \in BOOLEAN :
        /\ get_dashboard_db(loop, conn_ok)
        /\ LET product == frm[s].product[1]
               calls == Append(frm[s].calls, "create_product_isolated")
           IN  IF conn_ok /\ insert_ok
               THEN /\ products' = insert_one(product)
                    /\ ss' = [ss EXCEPT ![s].pending = Some(success_data(product))]
                    /\ frm' = [frm EXCEPT ![s] = [@ EXCEPT !.pc = "rerun", !.calls = calls,
                                                           !.product = None,
                                                           !.inserted = TRUE]]
               ELSE /\ UNCHANGED <<products, ss>>
                    /\ frm' = [frm EXCEPT ![s] =
                          [@ EXCEPT !.pc = "idle", !.calls = calls, !.product = None,
                                    !.shown = @ \cup {IF conn_ok THEN CreateFailed
                                                      ELSE ErrorCreating}]]
    /\ UNCHANGED not_frm

----------------------------------------------------------------------------
(* Driver of extract_domain: a caller picks a str and calls the function *)

NoOutcome == [raised |-> FALSE, value |-> <<>>]

EdInit ==
    /\ ed_pc = "call"
    /\ ed_url \in Urls
    /\ ed_out = NoOutcome

\* no call of extract_domain of its own is under way
EdParked ==
    /\ ed_pc = "parked"
    /\ ed_url = <<>>
    /\ ed_out = NoOutcome

ExtractDomainCall ==
    /\ ed_pc = "call"
    /\ ed_out' = extract_domain(ed_url)
    /\ ed_pc' = "done"
    /\ UNCHANGED ed_url
    /\ UNCHANGED not_ed

\* the caller calls again with the same str (the function keeps no state)
ExtractDomainAgain ==
    /\ ed_pc = "done"
    /\ ed_out' = NoOutcome
    /\ ed_pc' = "call"
    /\ UNCHANGED ed_url
    /\ UNCHANGED not_ed

----------------------------------------------------------------------------
(* Specifications *)

\* extract_domain alone, over the generated URLs
DomainNext == ExtractDomainCall \/ ExtractDomainAgain

\* the parts of the program that a specification leaves at rest
StoreEmpty == products = {} /\ documents = {}

DomainInit == EdInit /\ StoreEmpty /\ ConnIdle /\ ChkIdle /\ GwIdle /\ SupIdle /\ MailParked /\ FormInit

SpecDomain == DomainInit /\ [][DomainNext]_vars

\* GET /extension/check against a store that holds some of the products
CheckNext == CheckStart \/ CheckLookup1 \/ CheckLookup2 \/ CheckOverview \/ CheckReturn

CheckInit ==
    /\ EdParked /\ products \in Catalogs /\ documents = {} /\ ConnIdle /\ ChkIdle
    /\ GwIdle /\ SupIdle /\ MailParked /\ FormInit

SpecCheck == CheckInit /\ [][CheckNext]_vars

\* a dashboard page reading through the gateway, loops coming and going
GatewayNext ==
    \/ get_all_products_isolated
    \/ get_product_by_slug_isolated
    \/ get_product_documents_isolated
    \/ get_product_documents_by_id_isolated
    \/ get_all_documents_isolated
    \/ get_document_counts_by_product
    \/ GatewayReturn
    \/ LoopClosed

GatewayInit ==
    /\ EdParked /\ products \in Catalogs /\ documents \in SUBSET DocPool /\ ConnInit
    /\ ChkIdle /\ GwIdle /\ SupIdle /\ MailParked /\ FormInit

SpecGateway == GatewayInit /\ [][GatewayNext]_vars

\* POST /extension/request-support
SupportNext == SupportStart \/ SupportSend \/ SupportReturn

SupportInit ==
    /\ EdParked /\ StoreEmpty /\ ConnIdle /\ ChkIdle /\ GwIdle /\ SupIdle /\ MailInit
    /\ FormInit

SpecSupport == SupportInit /\ [][SupportNext]_vars

\* the dashboard's creation form, used from two sessions
FormStoreInit ==
    /\ EdParked /\ StoreEmpty /\ ConnIdle /\ ChkIdle /\ GwIdle /\ SupIdle /\ MailParked
    /\ FormInit

\* one session at work: each of its submissions has ended, in success or in
\* an error, before the next one starts
FormSeqNext ==
    \E s \in {"s1"} :
        \/ FillForm(s)
        \/ Render(s)
        \/ CreateOther(s)
        \/ Submit(s)
        \/ SlugCheck(s)
        \/ Create(s)

SpecFormSeq == FormStoreInit /\ [][FormSeqNext]_vars

\* two sessions at work at once, their runs interleaved at the gateway calls
FormRaceInit ==
    /\ EdParked /\ StoreEmpty /\ ConnIdle /\ ChkIdle /\ GwIdle /\ SupIdle /\ MailParked
    /\ FormInit

FormRaceNext ==
    \E s \in Sessions :
        \/ FillSameSlug(s)
        \/ Render(s)
        \/ Submit(s)
        \/ SlugCheck(s)
        \/ Create(s)

SpecFormRace == FormRaceInit /\ [][FormRaceNext]_vars

----------------------------------------------------------------------------
(* Claims about extract_domain *)

\* The reference algorithm of the specification, stated on the positions of
\* the dots of the hostname instead of on split and join.
RefSuffixes ==
    { <<"c","o",".","u","k">>, <<"c","o","m",".","a","u">>, <<"c","o",".","n","z">>,
      <<"c","o",".","j","p">>, <<"c","o","m",".","b","r">>, <<"c","o",".","i","n">> }

DotsOf(h) == {i \in 1..Len(h) : h[i] = "."}

\* the position of the k-th dot of h counted from its end
DotFromEnd(h, k) ==
    CHOOSE d \in DotsOf(h) : Cardinality({e \in DotsOf(h) : e > d}) = k - 1

RefRootDomain(h0) ==
    LET h == IF Len(h0) >= 4 /\ SubSeq(h0, 1, 4) = <<"w","w","w",".">>
             THEN SubSeq(h0, 5, Len(h0)) ELSE h0
        n == Cardinality(DotsOf(h))
    IN  IF n >= 2
        THEN LET lastTwo == SubSeq(h, DotFromEnd(h, 2) + 1, Len(h))
             IN  IF lastTwo \in RefSuffixes
                 THEN IF n >= 3 THEN SubSeq(h, DotFromEnd(h, 3) + 1, Len(h)) ELSE h
                 ELSE lastTwo
        ELSE h

\* C3: whenever extract_domain returns, its value is that of the reference
\* algorithm applied to the URL's network location (or its path when the network
\* location is empty); https://app.slack.com/client gives slack.com,
\* https://foo.bar.co.uk gives bar.co.uk and https://zoom.us/join gives zoom.us.
C3_MatchesReference ==
    (ed_pc = "done" /\ ~ed_out.raised) =>
        /\ ed_out.value = RefRootDomain(hostname_of(urlparse(ed_url)))
        /\ ed_url = SlackUrl => ed_out.value = <<"s","l","a","c","k",".","c","o","m">>
        /\ ed_url = FooBarUrl => ed_out.value = <<"b","a","r",".","c","o",".","u","k">>
        /\ ed_url = ZoomUrl => ed_out.value = <<"z","o","o","m",".","u","s">>

C3_Witness ==
    /\ ed_pc = "done"
    /\ ed_url = FooBarUrl
    /\ ed_out = Returned(<<"b","a","r",".","c","o",".","u","k">>)

\* C4: for every URL whose hostname is www.X.Y, with X and Y labels (no dot in
\* either), extract_domain returns X.Y: the www. prefix is stripped and the rest
\* of the hostname is kept.
C4_WwwStripped ==
    LET parsed == urlparse(ed_url)
        h0     == hostname_of(parsed)
    IN  ( /\ ed_pc = "done"
          /\ ~ed_out.raised
          /\ StartsWith(h0, <<"w","w","w",".">>)
          /\ Cardinality(DotsOf(Drop(h0, 4))) = 1 )
        => ed_out.value = Drop(h0, 4)

C4_Witness ==
    /\ ed_pc = "done"
    /\ ed_url = <<"h","t","t","p","s",":","/","/","w","w","w",".","c","o",".","u","k","/","j","o","i","n">>
    /\ ed_out = Returned(<<"c","o",".","u","k">>)

\* C5: extract_domain is total: no call ends by raising.
C5_NeverRaises == ed_pc = "done" => ~ed_out.raised

----------------------------------------------------------------------------
(* Claims about check_url *)

by_domain == "get_product_by_domain"
by_overview == "get_product_overview"

\* the last two labels of a domain that has at least three
LastTwoLabels(d) == SubSeq(d, DotFromEnd(d, 2) + 1, Len(d))

\* C1: the first service call of a request is the lookup by the domain that
\* extract_domain returned; a second lookup by domain is made only as the second
\* call, only after the first found no product, only for a domain of more than
\* two labels, and by its last two labels; when no lookup found a product the
\* response is found=false with every other field absent and no overview lookup
\* was made.
C1_LookupOrder ==
    LET n == Len(chk_calls)
    IN  /\ n >= 1 =>
            /\ chk_calls[1].op = by_domain
            /\ chk_calls[1].arg = extract_domain(chk_url).value
        /\ \A i \in 2..n :
            chk_calls[i].op = by_domain =>
                /\ i = 2
                /\ ~chk_calls[1].found
                /\ Cardinality(DotsOf(chk_domain)) >= 2
                /\ chk_calls[i].arg = LastTwoLabels(chk_domain)
        /\ \A i \in 1..n :
            chk_calls[i].op = by_overview =>
                /\ i = n
                /\ chk_calls[i - 1].op = by_domain /\ chk_calls[i - 1].found
        /\ (chk_pc = "done" /\ \A i \in 1..n : ~chk_calls[i].found /\ chk_calls[i].op = by_domain) =>
            /\ chk_response = Some(NotFoundResponse)
            /\ n = IF Cardinality(DotsOf(chk_domain)) >= 2 THEN 2 ELSE 1

C1_Witness ==
    /\ chk_pc = "done"
    /\ Len(chk_calls) = 2
    /\ chk_calls[2] = DomainCall(<<"c","o",".","u","k">>, FALSE)
    /\ chk_response = Some(NotFoundResponse)

RefKeywords ==
    { <<"s","h","a","r","e">>, <<"s","e","l","l">>, <<"t","r","a","c","k">>,
      <<"c","o","l","l","e","c","t">>, <<"t","h","i","r","d">>,
      <<"a","d","v","e","r","t","i","s">>, <<"r","e","t","a","i","n">> }

\* kp contains one of the keywords, letter case ignored
RefMatches(kp) ==
    \E kw \in RefKeywords : \E off \in 0..(Len(kp) - Len(kw)) :
        \A j \in 1..Len(kw) : LowerChar(kp[off + j]) = kw[j]

RefFirst3(xs) == [i \in 1..(IF Len(xs) < 3 THEN Len(xs) ELSE 3) |-> xs[i]]

\* the list the claim describes: dangers first, then matching keypoints, then
\* raw keypoints
ClaimedConcerns(overview) ==
    IF overview.dangers # <<>> THEN RefFirst3(overview.dangers)
    ELSE IF SelectSeq(overview.keypoints, RefMatches) # <<>>
    THEN RefFirst3(SelectSeq(overview.keypoints, RefMatches))
    ELSE RefFirst3(overview.keypoints)

\* C2 as stated: for every overview returned for a found product, top_concerns
\* is the list the claim describes (the first 3 raw keypoints when nothing else
\* applies), and it never has more than 3 entries.
C2_AsClaimed ==
    (chk_pc = "done" /\ chk_overview # None) =>
        /\ chk_response[1].top_concerns = Some(ClaimedConcerns(chk_overview[1]))
        /\ Len(chk_response[1].top_concerns[1]) <= 3

\* C2 amended: top_concerns is the list the claim describes, of at most 3
\* entries, except that it is absent (None, not an empty list) when dangers and
\* keypoints are both empty.
C2_TopConcerns ==
    (chk_pc = "done" /\ chk_overview # None) =>
        LET overview == chk_overview[1]
            top_concerns == chk_response[1].top_concerns
        IN  IF overview.dangers = <<>> /\ overview.keypoints = <<>>
            THEN top_concerns = None
            ELSE /\ top_concerns = Some(ClaimedConcerns(overview))
                 /\ Len(top_concerns[1]) <= 3

\* no dangers, and the upper-case SHARE keypoint is picked by the keyword filter
\* ahead of the keypoint that matches nothing
C2_Witness ==
    /\ chk_pc = "done"
    /\ chk_overview # None
    /\ chk_overview[1].dangers = <<>>
    /\ chk_overview[1].keypoints =
         << <<"E","n","c","r","y","p","t","e","d">>,
            <<"W","e"," ","S","H","A","R","E"," ","d","a","t","a">> >>
    /\ chk_response[1].top_concerns =
         Some(<< <<"W","e"," ","S","H","A","R","E"," ","d","a","t","a">> >>)

----------------------------------------------------------------------------
(* Claims about request_support *)

\* C9: a finished request answers {success: true} only if the provider call
\* returned without error, and then the email of this request is the last one
\* delivered; whenever sending failed the answer is HTTP 500 with no success,
\* caused by an EmailServiceError; with no RESEND_API_KEY in the environment
\* that is always the outcome; and the store holds nothing the request wrote.
C9_SupportFailsClosed ==
    /\ products = {} /\ documents = {}
    /\ sup.pc = "done" =>
        LET r == sup.response[1]
        IN  /\ r.success <=> sup.sent
            /\ r.success =>
                /\ r.status = 200
                /\ mail.outbox # <<>>
                /\ mail.outbox[Len(mail.outbox)] = [domain |-> sup.domain, url |-> sup.url]
            /\ ~sup.sent =>
                /\ r.status = 500
                /\ sup.error = "EmailServiceError"
            /\ ~mail.env_key =>
                /\ ~r.success /\ r.status = 500
                /\ sup.error = "EmailServiceError"
                /\ mail.outbox = <<>>

C9_Witness ==
    /\ sup.pc = "done"
    /\ ~mail.env_key
    /\ sup.error = "EmailServiceError"
    /\ sup.response = Some([status |-> 500, success |-> FALSE])

----------------------------------------------------------------------------
(* Claims about the gateway's read operations *)

\* C10: no exception leaves a read operation of the gateway: whatever fails,
\* acquiring the connection included, the caller gets a result.
C10_NoReadRaises == gw.pc # "raised"

\* a submission of session s has been processed to its end
SubmissionEnded(s) == frm[s].run = "submit" /\ frm[s].pc \in {"idle", "rerun"}

\* C6: when submissions are processed one after the other, the store never
\* holds two products with the same slug, and a submission whose slug a stored
\* product already has makes no create call.
C6_AsClaimed ==
    /\ \A p \in products, q \in products : p.slug = q.slug => p = q
    /\ \A s \in Sessions :
        (SubmissionEnded(s) /\ frm[s].existed) =>
            \A i \in 1..Len(frm[s].calls) : frm[s].calls[i] # "create_product_isolated"

\* the text is blank: it is empty after trimming
AllBlank(text) == \A i \in 1..Len(text) : text[i] = " "

\* every entry of the list is blank: the list is empty after trimming
NothingGiven(list) == \A i \in 1..Len(list) : AllBlank(list[i])

NameMissing(fill) == AllBlank(fill.product_name_input)

ListsMissing(fill) == NothingGiven(fill.domains_input) /\ NothingGiven(fill.crawl_urls_input)

\* C7: a submission made from the editing state records the pending success
\* if and only if the required fields are given, no stored product had the
\* slug when it was looked up, and the create call succeeded; otherwise no
\* success state is recorded.
C7_AsClaimed ==
    \A s \in Sessions :
        (SubmissionEnded(s) /\ frm[s].before.created = None /\ frm[s].before.pending = None) =>
            /\ ss[s].pending # None <=>
                   /\ ~NameMissing(frm[s].fill) /\ ~ListsMissing(frm[s].fill)
                   /\ ~frm[s].existed
                   /\ frm[s].inserted
            /\ ss[s].pending = None => ss[s].created = None

\* C8: a submission with a blank name, or with nothing in domains and nothing
\* in crawl base URLs, shows the validation error of each missing field, makes
\* no gateway call, stores nothing and leaves the session state as it was.
C8_InvalidSubmission ==
    \A s \in Sessions :
        (frm[s].run = "submit" /\ (NameMissing(frm[s].fill) \/ ListsMissing(frm[s].fill))) =>
            /\ frm[s].pc = "idle"
            /\ NameMissing(frm[s].fill) => NameRequired \in frm[s].shown
            /\ ListsMissing(frm[s].fill) => DomainOrUrlRequired \in frm[s].shown
            /\ frm[s].calls = <<>>
            /\ ~frm[s].inserted
            /\ ss[s] = frm[s].before

\* a blank name was submitted with a domain given, after a product was stored
C8_Witness ==
    \E s \in Sessions :
        /\ frm[s].run = "submit"
        /\ NameMissing(frm[s].fill) /\ ~ListsMissing(frm[s].fill)
        /\ frm[s].shown = {CreatedOk, NameRequired}
        /\ products # {}

\* the address the extension is sent to for a slug
ClauseaProducts == <<"h","t","t","p","s",":","/","/","c","l","a","u","s","e","a",".","c","o">>
                   \o <<"/","p","r","o","d","u","c","t","s","/">>

\* every found=true response links to the matched product's page
LinksToProduct ==
    (chk_pc = "done" /\ chk_response[1].found) =>
        /\ chk_product # None
        /\ chk_response[1].analysis_url = Some(ClauseaProducts \o chk_product[1].slug)
        /\ chk_response[1].slug = Some(chk_product[1].slug)

\* the fields of a response other than top_concerns are all present
OverviewFieldsPresent(r) ==
    /\ r.found
    /\ r.slug # None /\ r.product_name # None /\ r.verdict # None
    /\ r.risk_score # None /\ r.one_line_summary # None /\ r.analysis_url # None

\* C11 as stated: with a product and an overview found, every field of the
\* response is present, top_concerns included, and every found=true response
\* links to https://clausea.co/products/{slug}.
C11_AsClaimed ==
    /\ LinksToProduct
    /\ (chk_pc = "done" /\ chk_overview # None) =>
        /\ OverviewFieldsPresent(chk_response[1])
        /\ chk_response[1].top_concerns # None

\* C11: with a product and an overview found, the response has found=true and
\* slug, product_name, verdict, risk_score, one_line_summary and analysis_url
\* present with the overview's values; top_concerns is present exactly when the
\* overview has a danger or a keypoint; every found=true response links to
\* https://clausea.co/products/{slug} of the matched product.
C11_Populated ==
    /\ LinksToProduct
    /\ (chk_pc = "done" /\ chk_overview # None) =>
        LET r == chk_response[1]
            o == chk_overview[1]
        IN  /\ OverviewFieldsPresent(r)
            /\ r.product_name = Some(o.product_name)
            /\ r.verdict = Some(o.verdict)
            /\ r.risk_score = Some(o.risk_score)
            /\ r.one_line_summary = Some(o.one_line_summary)
            /\ r.top_concerns # None <=> (o.dangers # <<>> \/ o.keypoints # <<>>)

\* a product found by the base-domain lookup, with an overview that has keypoints only
C11_Witness ==
    /\ chk_pc = "done"
    /\ Len(chk_calls) = 3
    /\ chk_overview # None
    /\ chk_overview[1].dangers = <<>> /\ chk_overview[1].keypoints # <<>>
    /\ chk_response[1].top_concerns # None
    /\ chk_response[1].analysis_url = Some(ClauseaProducts \o chk_product[1].slug)

\* the text between its first and its last character that is not a blank
Trimmed(text) ==
    LET inked == {i \in 1..Len(text) : text[i] # " "}
    IN  IF inked = {} THEN <<>>
        ELSE LET first == CHOOSE i \in inked : \A j \in inked : i <= j
                 last  == CHOOSE i \in inked : \A j \in inked : j <= i
             IN  [k \in 1..(last - first + 1) |-> text[first + k - 1]]

\* the text with each character replaced by what stands for it
RECURSIVE Spelled(_)
Spelled(text) ==
    IF text = <<>> THEN <<>>
    ELSE (CASE text[1] = " " -> <<"-">>
            [] text[1] = "&" -> <<"a","n","d">>
            [] OTHER -> <<LowerChar(text[1])>>) \o Spelled(Tail(text))

\* the slug a submission is to be stored under
ClaimedSlug(fill) ==
    IF Trimmed(fill.product_slug_input) # <<>>
    THEN Trimmed(fill.product_slug_input)
    ELSE Spelled(Trimmed(fill.product_name_input))

\* C12: the product a submission stored has the slug made from the trimmed
\* name (lower case, '-' for each space, 'and' for each '&') when no slug was
\* given, and the given slug trimmed otherwise.
C12_AsClaimed ==
    \A s \in Sessions :
        (frm[s].run = "submit" /\ frm[s].inserted) =>
            \E p \in products :
                /\ p.id = ss[s].pending[1].product_created_id
                /\ p.slug = ClaimedSlug(frm[s].fill)

\* the product a successful submission of session s reported to its user
StoredBy(s) == {p \in products : p.id = ss[s].pending[1].product_created_id}

\* C13: a submission that passed the slug check and whose create returned
\* success has put its own product into the store under the slug it checked,
\* whatever was stored between its check and its insert: nothing between the
\* two operations holds the second insert back.
C13_BothInsert ==
    \A s \in Sessions :
        (frm[s].run = "submit" /\ frm[s].inserted) =>
            \E p \in StoredBy(s) : p.slug = frm[s].slug

\* both sessions looked the slug up without error while no product had it,
\* both inserted, and the store holds two products with that slug
C13_Witness ==
    /\ \A s \in Sessions :
        /\ frm[s].run = "submit" /\ frm[s].inserted /\ ~frm[s].existed
        /\ frm[s].calls = <<"get_product_by_slug_isolated", "create_product_isolated">>
    /\ frm["s1"].slug = frm["s2"].slug
    /\ \E p \in StoredBy("s1"), q \in StoredBy("s2") : p # q /\ p.slug = q.slug

\* C14: the two caches have the same loops as keys, the database handle
\* cached for a loop is that of the client cached for it, and no client is
\* cached for two loops.
C14_AsClaimed ==
    /\ DOMAIN loop_clients = DOMAIN loop_dbs
    /\ \A loop \in DOMAIN loop_clients \cap DOMAIN loop_dbs :
        loop_dbs[loop] = loop_clients[loop]
    /\ \A l1 \in DOMAIN loop_clients, l2 \in DOMAIN loop_clients :
        loop_clients[l1] = loop_clients[l2] => l1 = l2

\* the run of session s that has just ended was a plain render
Rendered(s) == frm[s].run = "render"

\* C15: a pending success is only ever met by a render, which turns it into
\* the shown success and removes the pending marker; Create Other is pressed
\* only where the success is shown, asks for the clearing and removes the
\* success keys; the render that follows leaves no form field of any counter
\* set, no success key, the clear request reset and the counter one higher.
C15_SuccessThenCreateOther ==
    \A s \in Sessions :
        /\ (ss[s].pending # None \/ ss[s].clear) => frm[s].pc = "rerun"
        /\ (Rendered(s) /\ frm[s].before.pending # None) =>
            /\ ss[s].created = frm[s].before.pending
            /\ ss[s].pending = None
            /\ CreatedOk \in frm[s].shown
            /\ ss[s].widgets = frm[s].before.widgets
            /\ ss[s].counter = frm[s].before.counter
        /\ frm[s].run = "create_other" =>
            /\ frm[s].before.created # None
            /\ ss[s].clear /\ ss[s].created = None /\ ss[s].pending = None
            /\ ss[s].counter = frm[s].before.counter
        /\ (Rendered(s) /\ frm[s].before.clear) =>
            /\ \A c \in DOMAIN ss[s].widgets : ss[s].widgets[c] = None
            /\ ss[s].created = None /\ ss[s].pending = None
            /\ ~ss[s].clear
            /\ ss[s].counter = frm[s].before.counter + 1
            /\ frm[s].shown = {}

\* Create Other was pressed over a filled form and the form was drawn again
C15_Witness ==
    \E s \in Sessions :
        /\ Rendered(s) /\ frm[s].before.clear
        /\ frm[s].before.widgets[frm[s].before.counter] # None
        /\ ss[s].counter = 1
        /\ products # {}

\* d has at most two labels, or three of which the last two are a listed suffix
RegistrableShape(d) ==
    \/ Cardinality(DotsOf(d)) <= 1
    \/ Cardinality(DotsOf(d)) = 2 /\ LastTwoLabels(d) \in RefSuffixes

====
